---- MODULE Spec2Model ----
(***************************************************************************)
(* HTTP proxy front end of shadowsocks-rust                                *)
(* (src/relay/tcprelay/http_local.rs): the destination resolver host_addr, *)
(* the backend connector, the request dispatcher server_dispatch and the   *)
(* CONNECT relay establish_connect_tunnel.                                 *)
(*                                                                         *)
(* Strings are modelled as sequences of lexical tokens: the punctuation    *)
(* the code inspects ("[", "]", ":", "@") is one token each, every other   *)
(* token is a run of characters free of punctuation.                       *)
(***************************************************************************)
EXTENDS Integers, Sequences, FiniteSets, TLC

(***************************************************************************)
(* Bounds of the model.                                                    *)
(***************************************************************************)
\* bytes each peer of a tunnel writes
MaxWrite == 2
\* bytes each peer writes when two tunnels are live together
MaxPairWrite == 1
\* backend tunnels opened during one run
MaxTunnels == 2

(***************************************************************************)
(* Strings, the http crate's Authority and std::net parsing, as the code   *)
(* calls them.                                                             *)
(***************************************************************************)
RECURSIVE rfind(_, _)
\* str::rfind: index of the last occurrence of token t in s, 0 when absent
rfind(s, t) ==
    IF s = <<>> THEN 0
    ELSE IF s[Len(s)] = t THEN Len(s)
    ELSE rfind(SubSeq(s, 1, Len(s) - 1), t)

RECURSIVE find(_, _)
\* str::find: index of the first occurrence of token t in s, 0 when absent
find(s, t) ==
    IF s = <<>> THEN 0
    ELSE IF s[1] = t THEN 1
    ELSE LET r == find(Tail(s), t) IN IF r = 0 THEN 0 ELSE r + 1

RECURSIVE trim_start_matches(_, _)
trim_start_matches(s, t) ==
    IF s # <<>> /\ s[1] = t THEN trim_start_matches(Tail(s), t) ELSE s

RECURSIVE trim_end_matches(_, _)
trim_end_matches(s, t) ==
    IF s # <<>> /\ s[Len(s)] = t
    THEN trim_end_matches(SubSeq(s, 1, Len(s) - 1), t)
    ELSE s

starts_with(s, t) == s # <<>> /\ s[1] = t

ends_with(s, t) == s # <<>> /\ s[Len(s)] = t

\* decimal tokens and their values (str::parse::<u16>)
PortValue ==
    [t \in {"1", "80", "443", "8080"} |->
        CASE t = "1" -> 1 [] t = "80" -> 80 [] t = "443" -> 443 [] t = "8080" -> 8080]

\* Authority::port_u16: the text after the last ":" parsed as u16; -1 is None
port_u16(authority) ==
    LET i == rfind(authority, ":") IN
    IF i = 0 THEN -1
    ELSE LET rest == SubSeq(authority, i + 1, Len(authority)) IN
         IF Len(rest) = 1 /\ rest[1] \in DOMAIN PortValue
         THEN PortValue[rest[1]] ELSE -1

\* Authority::host: drop the userinfo, then a bracketed literal up to its
\* "]" or the text before the first ":"
host(authority) ==
    LET at == rfind(authority, "@")
        host_port == SubSeq(authority, at + 1, Len(authority)) IN
    IF starts_with(host_port, "[")
    THEN SubSeq(host_port, 1, find(host_port, "]"))
    ELSE LET c == find(host_port, ":") IN
         IF c = 0 THEN host_port ELSE SubSeq(host_port, 1, c - 1)

Ipv4Literals == {<<"127.0.0.1">>}

Ipv6Literals == {<<":", ":", "1">>}

\* str::parse::<IpAddr>: the literal itself, <<>> on Err
ParseIpAddr(s) == IF s \in Ipv4Literals \cup Ipv6Literals THEN s ELSE <<>>

NoAddress == [type |-> "None"]

SocketAddress(ip, port) == [type |-> "SocketAddress", ip |-> ip, port |-> port]

DomainNameAddress(h, port) == [type |-> "DomainNameAddress", host |-> h, port |-> port]

\* str::parse::<SocketAddr>: "v4:port" or "[v6]:port", NoAddress on Err
ParseSocketAddr(s) ==
    LET n == Len(s) IN
    IF n >= 3 /\ s[n - 1] = ":" /\ s[n] \in DOMAIN PortValue
    THEN LET h == SubSeq(s, 1, n - 2) IN
         IF h \in Ipv4Literals THEN SocketAddress(h, PortValue[s[n]])
         ELSE IF Len(h) >= 2 /\ h[1] = "[" /\ h[Len(h)] = "]"
                 /\ SubSeq(h, 2, Len(h) - 1) \in Ipv6Literals
              THEN SocketAddress(SubSeq(h, 2, Len(h) - 1), PortValue[s[n]])
              ELSE NoAddress
    ELSE NoAddress

(***************************************************************************)
(* Destination resolver.                                                   *)
(***************************************************************************)
\* DefaultPort refusing a target with neither scheme nor port
DefaultPort_scheme_required(scheme) ==
    CASE scheme = "http" -> 80
      [] scheme = "https" -> 443
      [] OTHER -> -1

\* DefaultPort giving port 80 to every scheme
DefaultPort_any_scheme_80(scheme) ==
    CASE scheme = "https" -> 443
      [] OTHER -> 80

\* default port of a scheme when the authority has none; -1 is "not supported"
DefaultPort(scheme) ==
    CASE scheme = "none" -> 80
      [] scheme = "http" -> 80
      [] scheme = "https" -> 443
      [] OTHER -> -1

\* the no-port branch once the default port is known
host_addr_no_port(authority_str, port) ==
    IF starts_with(authority_str, "[") /\ ends_with(authority_str, "]")
    THEN LET addr == trim_end_matches(trim_start_matches(authority_str, "["), "]") IN
         IF ParseIpAddr(addr) # <<>> THEN SocketAddress(ParseIpAddr(addr), port)
         ELSE NoAddress
    ELSE IF ParseIpAddr(authority_str) # <<>>
         THEN SocketAddress(ParseIpAddr(authority_str), port)
         ELSE DomainNameAddress(authority_str, port)

\* host_addr_with_port never trying the authority as a socket address
host_addr_with_port_domain_only(authority, port) ==
    DomainNameAddress(host(authority), port)

\* the explicit-port branch
host_addr_with_port(authority, port) ==
    IF ParseSocketAddr(authority) # NoAddress THEN ParseSocketAddr(authority)
    ELSE DomainNameAddress(host(authority), port)

\* host_addr(uri): the Address of a request target, NoAddress for None
host_addr(uri) ==
    IF uri.authority = <<>> THEN NoAddress
    ELSE IF port_u16(uri.authority) # -1
         THEN host_addr_with_port(uri.authority, port_u16(uri.authority))
         ELSE IF DefaultPort(uri.scheme) = -1 THEN NoAddress
              ELSE host_addr_no_port(uri.authority, DefaultPort(uri.scheme))

(***************************************************************************)
(* Request targets.  A Uri is what hyper hands to server_dispatch: its     *)
(* scheme ("none" when absent) and its authority (<<>> when absent, as     *)
(* Uri::authority() reports an empty authority as None).                   *)
(***************************************************************************)
RECURSIVE AuthorityScan(_, _, _)
\* the scan of Authority::parse: colons since the last "]" or "@", the
\* brackets seen, the position of the last "@"
AuthorityScan(s, i, st) ==
    IF i > Len(s) THEN st
    ELSE AuthorityScan(s, i + 1,
        CASE s[i] = ":" -> [st EXCEPT !.colon_cnt = @ + 1]
          [] s[i] = "[" -> IF st.start_bracket THEN [st EXCEPT !.err = TRUE]
                           ELSE [st EXCEPT !.start_bracket = TRUE]
          [] s[i] = "]" -> IF st.end_bracket THEN [st EXCEPT !.err = TRUE]
                           ELSE [st EXCEPT !.end_bracket = TRUE, !.colon_cnt = 0]
          [] s[i] = "@" -> [st EXCEPT !.at_sign_pos = i, !.colon_cnt = 0]
          [] OTHER -> st)

\* Authority::parse accepts s
ValidAuthority(s) ==
    LET st == AuthorityScan(s, 1,
                  [colon_cnt |-> 0, start_bracket |-> FALSE, end_bracket |-> FALSE,
                   at_sign_pos |-> 0, err |-> FALSE]) IN
    /\ ~st.err
    /\ st.start_bracket = st.end_bracket
    /\ st.colon_cnt <= 1
    /\ ~(Len(s) > 0 /\ st.at_sign_pos = Len(s))

Uri(scheme, authority) == [scheme |-> scheme, authority |-> authority]

\* /relative/path: origin-form, no authority
UriRelativePath == Uri("none", <<>>)
\* nohost: authority-form without a port
UriNoHost == Uri("none", <<"nohost">>)
\* example.com:443: authority-form, as CONNECT sends it
UriExample443 == Uri("none", <<"example.com", ":", "443">>)
\* http://example.com/
UriHttpExample == Uri("http", <<"example.com">>)
\* http://:80/ : a port and an empty host
UriEmptyHost == Uri("http", <<":", "80">>)
\* ftp://host/
UriFtpHost == Uri("ftp", <<"host">>)

\* the targets requests carry in the dispatcher's runs
RequestUris ==
    {u \in {UriRelativePath, UriNoHost, UriExample443, UriEmptyHost} :
        ValidAuthority(u.authority)}

\* the authorities of the resolver's runs: hosts that are names, IPv4 and
\* bracketed literals, with and without a port and a userinfo
ResolverAuthorities ==
    { <<>>,
      <<"example.com">>,
      <<"example.com", ":", "443">>,
      <<"example.com", ":", "99999">>,
      <<":", "80">>,
      <<"127.0.0.1">>,
      <<"127.0.0.1", ":", "8080">>,
      <<"[", ":", ":", "1", "]">>,
      <<"[", ":", ":", "1", "]", ":", "8080">>,
      <<"[", "127.0.0.1", "]">>,
      <<"[", "zz", "]">>,
      <<"[", "zz", "]", ":", "80">>,
      <<"user", ":", "pass", "@", "example.com">>,
      <<"user", ":", "pass", "@", "example.com", ":", "443">>,
      <<"user", "@", "127.0.0.1">>,
      <<"user", "@", "127.0.0.1", ":", "8080">>,
      <<"user", "@", "[", ":", ":", "1", "]">>,
      <<"user", "@", "[", ":", ":", "1", "]", ":", "8080">> }

\* Uri::scheme_str(): absent, the two the resolver names, and another one
ResolverSchemes == {"none", "http", "https", "ftp"}

\* the targets of the resolver's runs: every scheme with every authority
\* Authority::parse accepts
ResolverUris ==
    {Uri(sch, a) : sch \in ResolverSchemes,
                   a \in {x \in ResolverAuthorities : ValidAuthority(x)}}

Methods == {"CONNECT", "GET"}

(***************************************************************************)
(* State.                                                                  *)
(***************************************************************************)
\* client connections the listener can accept
Clients == {1, 2}

VARIABLES
    servers,         \* PingBalancer::servers(): the configured backends
    server_clients,  \* run(): addr string -> the backend its client's connector holds
    conn,            \* per client connection: the service_fn closure and its current request
    task,            \* per client connection: the task tokio::spawn started for its CONNECT
    upgraded,        \* per client connection: the client's side of the byte stream
    tunnels,         \* every CryptoStream opened so far, by id
    pool             \* ids of the tunnels idle in a hyper Client's pool

vars == <<servers, server_clients, conn, task, upgraded, tunnels, pool>>

ServerConfig(addr, key) == [addr |-> addr, key |-> key]

\* the backend sets of the runs: two backends, with distinct or equal addresses
ServerSets ==
    { <<ServerConfig("a:8388", "k1"), ServerConfig("b:8388", "k2")>>,
      <<ServerConfig("a:8388", "k1"), ServerConfig("a:8388", "k2")>> }

RECURSIVE BuildServerClients(_, _, _)
\* run(): the loop inserting one client per backend under its addr string
\* (HashMap::insert replaces the entry of an equal key)
BuildServerClients(svrs, i, map) ==
    IF i > Len(svrs) THEN map
    ELSE BuildServerClients(svrs, i + 1,
             [a \in DOMAIN map \cup {svrs[i].addr} |->
                 IF a = svrs[i].addr THEN i ELSE map[a]])

NoUri == Uri("none", <<"-">>)

NoResponse == [status |-> 0, body |-> <<>>, headers |-> {}]

Response(status, body, headers) == [status |-> status, body |-> body, headers |-> headers]

\* no call of proxy_server_handshake
NoHandshake == [svr |-> 0, addr |-> NoAddress]

\* proxy_server_handshake(stream, svr_cfg, &addr) as called
Handshake(svr, addr) == [svr |-> svr, addr |-> addr]

\* a connection before accept
ConnInit ==
    [st |-> "none", svr |-> 0, client |-> 0, method |-> "-", uri |-> NoUri,
     host |-> NoAddress, result |-> "none", resp |-> NoResponse, nresp |-> 0,
     nconnect |-> 0, hs |-> NoHandshake, io |-> "none", picks |-> 0, stream |-> 0]

TaskInit == [st |-> "none", stream |-> 0, host |-> NoAddress, svr |-> 0,
             rbuf |-> <<>>, wbuf |-> <<>>, outcome |-> "none"]

UpgradedInit == [cw |-> 0, cr |-> 0, cend |-> "open", closed |-> FALSE, toC |-> <<>>]

Init ==
    /\ servers \in ServerSets
    /\ server_clients = BuildServerClients(servers, 1, <<>>)
    /\ conn = [c \in Clients |-> ConnInit]
    /\ task = [c \in Clients |-> TaskInit]
    /\ upgraded = [c \in Clients |-> UpgradedInit]
    /\ tunnels = <<>>
    /\ pool = {}

(***************************************************************************)
(* Listener: make_service_fn picks a backend and looks up its client.      *)
(***************************************************************************)
\* the closure of make_service_fn for a connection whose pick is backend s
make_service(cn, s) ==
    [cn EXCEPT !.st = "idle", !.svr = s,
               !.client = server_clients[servers[s].addr],
               !.picks = @ + 1]

Accept(c) ==
    /\ conn[c].st = "none"
    /\ \E s \in 1..Len(servers) : conn' = [conn EXCEPT ![c] = make_service(conn[c], s)]
    /\ UNCHANGED <<servers, server_clients, task, upgraded, tunnels, pool>>

(***************************************************************************)
(* server_dispatch.                                                        *)
(***************************************************************************)
\* a request entering server_dispatch: the fields of the previous request
\* of the connection are forgotten
NewRequest(cn, m, u) ==
    [cn EXCEPT !.method = m, !.uri = u, !.host = host_addr(u), !.result = "pending",
               !.resp = NoResponse, !.nresp = 0, !.nconnect = 0, !.hs = NoHandshake,
               !.io = "none", !.stream = 0]

\* return Ok(resp): the response goes out and the connection reads on
ReturnOk(cn, resp) ==
    [cn EXCEPT !.st = "idle", !.result = "ok", !.resp = resp, !.nresp = @ + 1]

\* ReturnErr answering 502 in place of the error
ReturnErr_answers_502(cn) == ReturnOk(cn, Response(502, <<"Bad Gateway">>, {}))

\* the ? operator: server_dispatch returns Err, hyper ends the connection
ReturnErr(cn) == [cn EXCEPT !.st = "failed", !.result = "err"]

\* host_addr gave Some: branch on the method, up to the first await
branch_on_method(cn) ==
    IF cn.method = "CONNECT"
    THEN [cn EXCEPT !.st = "connecting"]
    ELSE [cn EXCEPT !.st = "forwarding"]

\* bad_request without its early return: the request goes on to the backend
bad_request_falls_through(cn) == branch_on_method(cn)

\* host_addr gave None: 400 and return
bad_request(cn) ==
    ReturnOk(cn, Response(400, <<"URI must be a valid Address">>, {}))

server_dispatch(c, m, u) ==
    /\ conn[c].st = "idle"
    /\ LET cn == NewRequest(conn[c], m, u) IN
       conn' = [conn EXCEPT ![c] =
                   IF cn.host = NoAddress THEN bad_request(cn) ELSE branch_on_method(cn)]
    /\ UNCHANGED <<servers, server_clients, task, upgraded, tunnels, pool>>

\* a tunnel as proxy_server_handshake returns it
Tunnel(svr, addr, via, c) ==
    [svr |-> svr, addr |-> addr, via |-> via, conn |-> c, open |-> TRUE,
     bw |-> 0, br |-> 0, bend |-> "open", toB |-> <<>>]

\* a dropped tunnel: a CONNECT tunnel keeps the record of what it carried
drop(tun) ==
    IF tun.via = "direct" THEN [tun EXCEPT !.open = FALSE]
    ELSE [tun EXCEPT !.open = FALSE, !.svr = 0, !.addr = NoAddress]

\* connect_proxy_server(context, svr_cfg) succeeded
connect_ok(c) ==
    /\ conn[c].st = "connecting"
    /\ Len(tunnels) < MaxTunnels
    /\ conn' = [conn EXCEPT ![c].st = "handshaking", ![c].nconnect = @ + 1]
    /\ UNCHANGED <<servers, server_clients, task, upgraded, tunnels, pool>>

\* connect_proxy_server(context, svr_cfg) failed
connect_err(c) ==
    /\ conn[c].st = "connecting"
    /\ conn' = [conn EXCEPT ![c] =
           ReturnErr([conn[c] EXCEPT !.nconnect = @ + 1, !.io = "connect"])]
    /\ UNCHANGED <<servers, server_clients, task, upgraded, tunnels, pool>>

\* spawn_task holding the first tunnel opened, not the one of its request
spawn_task_first_stream(cn, stream) ==
    [TaskInit EXCEPT !.st = "await_upgrade", !.stream = 1, !.host = cn.host, !.svr = cn.svr]

\* spawn_task starting the relay without awaiting on_upgrade
spawn_task_skips_upgrade(cn, stream) ==
    [TaskInit EXCEPT !.st = "relay", !.stream = stream, !.host = cn.host, !.svr = cn.svr]

\* the task of tokio::spawn, holding the request body, the tunnel, the
\* backend and the destination
spawn_task(cn, stream) ==
    [TaskInit EXCEPT !.st = "await_upgrade", !.stream = stream, !.host = cn.host,
                     !.svr = cn.svr]

\* proxy_server_handshake(stream, svr_cfg, &host) succeeded; the task is spawned
handshake_ok(c) ==
    /\ conn[c].st = "handshaking"
    /\ tunnels' = Append(tunnels, Tunnel(conn[c].svr, conn[c].host, "direct", c))
    /\ task' = [task EXCEPT ![c] = spawn_task(conn[c], Len(tunnels) + 1)]
    /\ conn' = [conn EXCEPT ![c].st = "returning", ![c].stream = Len(tunnels) + 1,
                            ![c].hs = Handshake(conn[c].svr, conn[c].host)]
    /\ UNCHANGED <<servers, server_clients, upgraded, pool>>

\* proxy_server_handshake failed
handshake_err(c) ==
    /\ conn[c].st = "handshaking"
    /\ conn' = [conn EXCEPT ![c] =
           ReturnErr([conn[c] EXCEPT !.hs = Handshake(conn[c].svr, conn[c].host),
                                     !.io = "handshake"])]
    /\ UNCHANGED <<servers, server_clients, task, upgraded, tunnels, pool>>

\* Response::builder().header("Proxy-Agent", ..).body(Body::empty())
tunnel_response(cn) ==
    [ReturnOk(cn, Response(200, <<>>, {"Proxy-Agent"})) EXCEPT !.st = "upgraded"]

\* Ok(resp) of the CONNECT branch
connect_return(c) ==
    /\ conn[c].st = "returning"
    /\ conn' = [conn EXCEPT ![c] = tunnel_response(conn[c])]
    /\ UNCHANGED <<servers, server_clients, task, upgraded, tunnels, pool>>

(***************************************************************************)
(* The spawned task: on_upgrade, then establish_connect_tunnel.            *)
(***************************************************************************)
\* the i-th byte the client of connection c writes on its stream
ClientByte(c, i) == <<"client", c, i>>

\* the i-th byte the backend writes on tunnel t
BackendByte(t, i) == <<"backend", t, i>>

ClientBytes(c, from, to) == [i \in 1..(to - from + 1) |-> ClientByte(c, from + i - 1)]

BackendBytes(t, from, to) == [i \in 1..(to - from + 1) |-> BackendByte(t, from + i - 1)]

\* hyper completes on_upgrade once the 200 response has been written
upgrade_ok(c) ==
    /\ task[c].st = "await_upgrade"
    /\ conn[c].st = "upgraded"
    /\ task' = [task EXCEPT ![c].st = "relay"]
    /\ UNCHANGED <<servers, server_clients, conn, upgraded, tunnels, pool>>

\* upgrade_err ending the closure with the tunnel left open
upgrade_err_leaks_tunnel(c) ==
    /\ task[c].st = "await_upgrade"
    /\ task' = [task EXCEPT ![c].st = "dropped"]
    /\ upgraded' = [upgraded EXCEPT ![c].closed = TRUE]
    /\ UNCHANGED <<servers, server_clients, conn, tunnels, pool>>

\* on_upgrade failed: the closure ends and drops the tunnel it holds
upgrade_err(c) ==
    /\ task[c].st = "await_upgrade"
    /\ task' = [task EXCEPT ![c].st = "dropped"]
    /\ tunnels' = [tunnels EXCEPT ![task[c].stream] = drop(@)]
    /\ upgraded' = [upgraded EXCEPT ![c].closed = TRUE]
    /\ UNCHANGED <<servers, server_clients, conn, pool>>

\* the client writes one more byte on its connection, at most max in all
ClientWrite(c, max) ==
    /\ task[c].st \in {"await_upgrade", "relay"}
    /\ upgraded[c].cend = "open"
    /\ upgraded[c].cw < max
    /\ upgraded' = [upgraded EXCEPT ![c].cw = @ + 1]
    /\ UNCHANGED <<servers, server_clients, conn, task, tunnels, pool>>

\* the client shuts its side down (eof) or its connection breaks (err)
ClientEnd(c, how) ==
    /\ task[c].st = "relay"
    /\ upgraded[c].cend = "open"
    /\ upgraded' = [upgraded EXCEPT ![c].cend = how]
    /\ UNCHANGED <<servers, server_clients, conn, task, tunnels, pool>>

\* the backend writes one more byte on an open CONNECT tunnel, at most max in all
BackendWrite(t, max) ==
    /\ tunnels[t].via = "direct" /\ tunnels[t].open
    /\ tunnels[t].bend = "open"
    /\ tunnels[t].bw < max
    /\ tunnels' = [tunnels EXCEPT ![t].bw = @ + 1]
    /\ UNCHANGED <<servers, server_clients, conn, task, upgraded, pool>>

\* the backend closes the tunnel (eof) or the tunnel breaks (err)
BackendEnd(t, how) ==
    /\ tunnels[t].via = "direct" /\ tunnels[t].open
    /\ tunnels[t].bend = "open"
    /\ tunnels' = [tunnels EXCEPT ![t].bend = how]
    /\ UNCHANGED <<servers, server_clients, conn, task, upgraded, pool>>

\* rhalf_writer taking the most recently opened tunnel
rhalf_writer_latest(c) == Len(tunnels)

\* the tunnel svr_w of the task of connection c writes to
rhalf_writer(c) == task[c].stream

\* the tunnel svr_r of the task of connection c reads from
whalf_reader(c) == task[c].stream

\* copy(&mut r, &mut svr_w), poll_read: everything the client has sent so far
rhalf_read(c) ==
    /\ task[c].st = "relay"
    /\ task[c].rbuf = <<>>
    /\ upgraded[c].cr < upgraded[c].cw
    /\ task' = [task EXCEPT ![c].rbuf = ClientBytes(c, upgraded[c].cr + 1, upgraded[c].cw)]
    /\ upgraded' = [upgraded EXCEPT ![c].cr = upgraded[c].cw]
    /\ UNCHANGED <<servers, server_clients, conn, tunnels, pool>>

\* written sending the whole buffer while only k bytes are counted as sent
written_whole_buffer(buf, k) == buf

\* the bytes poll_write takes when it accepts k of the buffer
written(buf, k) == SubSeq(buf, 1, k)

\* copy(&mut r, &mut svr_w), poll_write: the tunnel accepts k bytes of the buffer
rhalf_write(c, k) ==
    /\ task[c].st = "relay"
    /\ k \in 1..Len(task[c].rbuf)
    /\ tunnels[rhalf_writer(c)].bend # "err"
    /\ tunnels' = [tunnels EXCEPT ![rhalf_writer(c)].toB = @ \o written(task[c].rbuf, k)]
    /\ task' = [task EXCEPT ![c].rbuf = SubSeq(@, k + 1, Len(@))]
    /\ UNCHANGED <<servers, server_clients, conn, upgraded, pool>>

\* copy(&mut svr_r, &mut w), poll_read: everything the backend has sent so far
whalf_read(c) ==
    /\ task[c].st = "relay"
    /\ task[c].wbuf = <<>>
    /\ tunnels[whalf_reader(c)].br < tunnels[whalf_reader(c)].bw
    /\ task' = [task EXCEPT ![c].wbuf =
           BackendBytes(whalf_reader(c), tunnels[whalf_reader(c)].br + 1,
                        tunnels[whalf_reader(c)].bw)]
    /\ tunnels' = [tunnels EXCEPT ![whalf_reader(c)].br = tunnels[whalf_reader(c)].bw]
    /\ UNCHANGED <<servers, server_clients, conn, upgraded, pool>>

\* copy(&mut svr_r, &mut w), poll_write: the client stream accepts k bytes
whalf_write(c, k) ==
    /\ task[c].st = "relay"
    /\ k \in 1..Len(task[c].wbuf)
    /\ upgraded[c].cend # "err"
    /\ upgraded' = [upgraded EXCEPT ![c].toC = @ \o written(task[c].wbuf, k)]
    /\ task' = [task EXCEPT ![c].wbuf = SubSeq(@, k + 1, Len(@))]
    /\ UNCHANGED <<servers, server_clients, conn, tunnels, pool>>

\* relay_end leaving the backend tunnel open
relay_end_leaks_tunnel(c, outcome) ==
    /\ task' = [task EXCEPT ![c].st = "done", ![c].outcome = outcome,
                            ![c].rbuf = <<>>, ![c].wbuf = <<>>]
    /\ upgraded' = [upgraded EXCEPT ![c].closed = TRUE]
    /\ UNCHANGED <<servers, server_clients, conn, tunnels, pool>>

\* future::select resolved: the match logs, the function returns and drops
\* both copies and both streams
relay_end(c, outcome) ==
    /\ task' = [task EXCEPT ![c].st = "done", ![c].outcome = outcome,
                            ![c].rbuf = <<>>, ![c].wbuf = <<>>]
    /\ tunnels' = [tunnels EXCEPT ![task[c].stream] = drop(@)]
    /\ upgraded' = [upgraded EXCEPT ![c].closed = TRUE]
    /\ UNCHANGED <<servers, server_clients, conn, pool>>

\* rhalf is ready with Ok: the client's eof was read and the buffer is flushed
rhalf_ready_ok(c) ==
    /\ task[c].rbuf = <<>>
    /\ upgraded[c].cr = upgraded[c].cw
    /\ upgraded[c].cend = "eof"

\* rhalf is ready with Err: the read from the client or the write to the tunnel failed
rhalf_ready_err(c) ==
    \/ task[c].rbuf = <<>> /\ upgraded[c].cr = upgraded[c].cw /\ upgraded[c].cend = "err"
    \/ task[c].rbuf # <<>> /\ tunnels[rhalf_writer(c)].bend = "err"

\* whalf is ready with Ok: the backend's eof was read and the buffer is flushed
whalf_ready_ok(c) ==
    /\ task[c].wbuf = <<>>
    /\ tunnels[whalf_reader(c)].br = tunnels[whalf_reader(c)].bw
    /\ tunnels[whalf_reader(c)].bend = "eof"

\* whalf is ready with Err: the read from the tunnel or the write to the client failed
whalf_ready_err(c) ==
    \/ /\ task[c].wbuf = <<>>
       /\ tunnels[whalf_reader(c)].br = tunnels[whalf_reader(c)].bw
       /\ tunnels[whalf_reader(c)].bend = "err"
    \/ task[c].wbuf # <<>> /\ upgraded[c].cend = "err"

\* select_ready waiting for both copies, as a join does
select_ready_joins(ready, other) == ready /\ other

\* future::select(rhalf, whalf) resolves with a copy as soon as that copy is
\* ready, whatever the state of the other copy
select_ready(ready, other) == ready

\* Either::Left((Ok(..), _))
select_left_ok(c) ==
    /\ task[c].st = "relay"
    /\ select_ready(rhalf_ready_ok(c), whalf_ready_ok(c) \/ whalf_ready_err(c))
    /\ relay_end(c, "LeftOk")

\* Either::Left((Err(err), _))
select_left_err(c) ==
    /\ task[c].st = "relay"
    /\ select_ready(rhalf_ready_err(c), whalf_ready_ok(c) \/ whalf_ready_err(c))
    /\ relay_end(c, "LeftErr")

\* Either::Right((Ok(..), _))
select_right_ok(c) ==
    /\ task[c].st = "relay"
    /\ select_ready(whalf_ready_ok(c), rhalf_ready_ok(c) \/ rhalf_ready_err(c))
    /\ relay_end(c, "RightOk")

\* Either::Right((Err(err), _))
select_right_err(c) ==
    /\ task[c].st = "relay"
    /\ select_ready(whalf_ready_err(c), rhalf_ready_ok(c) \/ rhalf_ready_err(c))
    /\ relay_end(c, "RightErr")

(***************************************************************************)
(* Forwarded requests: client.request(req) on the hyper Client of the      *)
(* connection, whose connector is ShadowSocksConnector (Service<Uri>).     *)
(***************************************************************************)
\* relay_failed propagating the error as the CONNECT branch does
relay_failed_propagates(cn) == ReturnErr(cn)

\* the Err arm of client.request: 500 naming the destination
relay_failed(cn) ==
    ReturnOk(cn, Response(500, <<"Relay failed to ", cn.host>>, {}))

\* the Ok arm of client.request: the upstream response as it came
relay_finished(cn, res) == ReturnOk(cn, res)

\* the responses an upstream server gives
UpstreamResponses == {Response(200, <<"upstream">>, {}), Response(404, <<"upstream">>, {})}

\* the Client takes an idle tunnel of its pool, kept for the same target
client_checkout(c, t) ==
    /\ conn[c].st = "forwarding"
    /\ t \in pool
    /\ tunnels[t].svr = conn[c].client /\ tunnels[t].addr = conn[c].host
    /\ pool' = pool \ {t}
    /\ conn' = [conn EXCEPT ![c].st = "exchange", ![c].stream = t]
    /\ UNCHANGED <<servers, server_clients, task, upgraded, tunnels>>

\* <ShadowSocksConnector as Service<Uri>>::call(dst), up to its first await:
\* "connecting" after Some(addr), "failed" after None
connector_call(dst) ==
    IF host_addr(dst) = NoAddress THEN "failed" ELSE "connecting"

\* the Client has no idle tunnel to use and calls its connector
client_connect(c) ==
    /\ conn[c].st = "forwarding"
    /\ conn' = [conn EXCEPT ![c] =
           IF connector_call(conn[c].uri) = "failed"
           THEN relay_failed([conn[c] EXCEPT !.io = "resolve"])
           ELSE [conn[c] EXCEPT !.st = "client_connecting"]]
    /\ UNCHANGED <<servers, server_clients, task, upgraded, tunnels, pool>>

\* the connector's connect_proxy_server succeeded
connector_connect_ok(c) ==
    /\ conn[c].st = "client_connecting"
    /\ Len(tunnels) < MaxTunnels
    /\ conn' = [conn EXCEPT ![c].st = "client_handshaking", ![c].nconnect = @ + 1]
    /\ UNCHANGED <<servers, server_clients, task, upgraded, tunnels, pool>>

\* the connector's connect_proxy_server failed
connector_connect_err(c) ==
    /\ conn[c].st = "client_connecting"
    /\ conn' = [conn EXCEPT ![c] =
           relay_failed([conn[c] EXCEPT !.nconnect = @ + 1, !.io = "connect"])]
    /\ UNCHANGED <<servers, server_clients, task, upgraded, tunnels, pool>>

\* the connector's proxy_server_handshake succeeded
connector_handshake_ok(c) ==
    /\ conn[c].st = "client_handshaking"
    /\ tunnels' = Append(tunnels, Tunnel(conn[c].client, host_addr(conn[c].uri), "client", 0))
    /\ conn' = [conn EXCEPT ![c].st = "exchange", ![c].stream = Len(tunnels) + 1,
                            ![c].hs = Handshake(conn[c].client, host_addr(conn[c].uri))]
    /\ UNCHANGED <<servers, server_clients, task, upgraded, pool>>

\* the connector's proxy_server_handshake failed
connector_handshake_err(c) ==
    /\ conn[c].st = "client_handshaking"
    /\ conn' = [conn EXCEPT ![c] =
           relay_failed([conn[c] EXCEPT !.hs = Handshake(conn[c].client, host_addr(conn[c].uri)),
                                        !.io = "handshake"])]
    /\ UNCHANGED <<servers, server_clients, task, upgraded, tunnels, pool>>

\* the upstream answered; the tunnel goes back to the pool or is closed
exchange_ok(c, res, keep) ==
    /\ conn[c].st = "exchange"
    /\ conn' = [conn EXCEPT ![c] = relay_finished(conn[c], res)]
    /\ IF keep
       THEN pool' = pool \cup {conn[c].stream} /\ UNCHANGED tunnels
       ELSE tunnels' = [tunnels EXCEPT ![conn[c].stream] = drop(@)] /\ UNCHANGED pool
    /\ UNCHANGED <<servers, server_clients, task, upgraded>>

\* the exchange over the tunnel failed; the tunnel is closed
exchange_err(c) ==
    /\ conn[c].st = "exchange"
    /\ conn' = [conn EXCEPT ![c] = relay_failed([conn[c] EXCEPT !.io = "exchange"])]
    /\ tunnels' = [tunnels EXCEPT ![conn[c].stream] = drop(@)]
    /\ UNCHANGED <<servers, server_clients, task, upgraded, pool>>

\* the pool closes an idle tunnel
pool_evict(t) ==
    /\ t \in pool
    /\ pool' = pool \ {t}
    /\ tunnels' = [tunnels EXCEPT ![t] = drop(@)]
    /\ UNCHANGED <<servers, server_clients, conn, task, upgraded>>

(***************************************************************************)
(* Specification.                                                          *)
(***************************************************************************)
\* Serve accepting and dispatching only while no CONNECT task is unfinished
Serve_waits_for_tunnels(CS, MS, US) ==
    /\ \A d \in Clients : task[d].st \notin {"await_upgrade", "relay"}
    /\ \/ \E c \in CS : Accept(c)
       \/ \E c \in CS, m \in MS, u \in US : server_dispatch(c, m, u)

\* the listener and the dispatcher's entry, for the connections CS and the
\* requests of methods MS and targets US
Serve(CS, MS, US) ==
    \/ \E c \in CS : Accept(c)
    \/ \E c \in CS, m \in MS, u \in US : server_dispatch(c, m, u)

\* the CONNECT branch and the spawned task up to the relay
Tunnelling(CS) ==
    \/ \E c \in CS : connect_ok(c)
    \/ \E c \in CS : connect_err(c)
    \/ \E c \in CS : handshake_ok(c)
    \/ \E c \in CS : handshake_err(c)
    \/ \E c \in CS : connect_return(c)
    \/ \E c \in CS : upgrade_ok(c)
    \/ \E c \in CS : upgrade_err(c)

\* the peers of a tunnel ending their side, and the relay ending on it
Ending(CS) ==
    \/ \E c \in CS, how \in {"eof", "err"} : ClientEnd(c, how)
    \/ \E t \in DOMAIN tunnels, how \in {"eof", "err"} : BackendEnd(t, how)
    \/ \E c \in CS : select_left_ok(c)
    \/ \E c \in CS : select_left_err(c)
    \/ \E c \in CS : select_right_ok(c)
    \/ \E c \in CS : select_right_err(c)

\* the peers of a tunnel writing at most max bytes each, and the two copies
Copying(CS, max) ==
    \/ \E c \in CS : ClientWrite(c, max)
    \/ \E t \in DOMAIN tunnels : BackendWrite(t, max)
    \/ \E c \in CS : rhalf_read(c)
    \/ \E c \in CS, k \in 1..max : rhalf_write(c, k)
    \/ \E c \in CS : whalf_read(c)
    \/ \E c \in CS, k \in 1..max : whalf_write(c, k)

\* the non-CONNECT branch
Forwarding(CS) ==
    \/ \E c \in CS, t \in DOMAIN tunnels : client_checkout(c, t)
    \/ \E c \in CS : client_connect(c)
    \/ \E c \in CS : connector_connect_ok(c)
    \/ \E c \in CS : connector_connect_err(c)
    \/ \E c \in CS : connector_handshake_ok(c)
    \/ \E c \in CS : connector_handshake_err(c)
    \/ \E c \in CS, res \in UpstreamResponses, keep \in BOOLEAN : exchange_ok(c, res, keep)
    \/ \E c \in CS : exchange_err(c)
    \/ \E t \in DOMAIN tunnels : pool_evict(t)

\* The dispatcher on one client connection: every request, CONNECT tunnels
\* that carry no payload before they end.
Next ==
    \/ Serve({1}, Methods, RequestUris)
    \/ Tunnelling({1})
    \/ Ending({1})
    \/ Forwarding({1})

Spec == Init /\ [][Next]_vars

\* the targets of the CONNECT requests of the relay's runs
TunnelUris == {UriExample443, UriNoHost}

\* One CONNECT tunnel and its payload.
NextRelay ==
    \/ Serve({1}, {"CONNECT"}, TunnelUris)
    \/ Tunnelling({1})
    \/ Ending({1})
    \/ Copying({1}, MaxWrite)

SpecRelay == Init /\ [][NextRelay]_vars

\* a step of the relay task of connection c: a poll of one of its two copies
\* or the completion of the select
RelayStep(c) ==
    \/ rhalf_read(c)
    \/ \E k \in 1..MaxWrite : rhalf_write(c, k)
    \/ whalf_read(c)
    \/ \E k \in 1..MaxWrite : whalf_write(c, k)
    \/ select_left_ok(c)
    \/ select_left_err(c)
    \/ select_right_ok(c)
    \/ select_right_err(c)

\* The runtime polls a spawned task whose copies can make progress; nothing
\* is assumed of the client, the backend or the dispatcher.
FairRelay == SpecRelay /\ WF_vars(RelayStep(1))

\* Two client connections, their CONNECT tunnels live together, with payload.
NextPair ==
    \/ Serve(Clients, {"CONNECT"}, TunnelUris)
    \/ Tunnelling(Clients)
    \/ Copying(Clients, MaxPairWrite)

SpecPair == Init /\ [][NextPair]_vars

\* Two client connections sharing the backends' clients: CONNECT and
\* forwarded requests to one destination, no payload.
NextShared ==
    \/ Serve(Clients, Methods, {UriExample443})
    \/ Tunnelling(Clients)
    \/ Ending(Clients)
    \/ Forwarding(Clients)

SpecShared == Init /\ [][NextShared]_vars

\* The resolver on every target: one client connection whose requests reach
\* no backend, so that each request ends after host_addr and the connect.
NextResolve ==
    \/ Serve({1}, Methods, ResolverUris)
    \/ \E c \in {1} : connect_err(c)
    \/ \E c \in {1} : client_connect(c)
    \/ \E c \in {1} : connector_connect_err(c)

SpecResolve == Init /\ [][NextResolve]_vars

(***************************************************************************)
(* Properties of the dispatcher.                                           *)
(***************************************************************************)
\* the current request of connection c has a target host_addr rejects
Rejected(c) == host_addr(conn[c].uri) = NoAddress

\* server_dispatch can be entered on connection c
CanDispatch(c) == \A m \in Methods, u \in RequestUris : ENABLED server_dispatch(c, m, u)

\* C1: a request of any method whose target the resolver rejects is answered
\* 400 by a normal return, with no backend connection, no handshake and no
\* spawned task, and the connection can dispatch its next request.
C1_RejectedTargetIs400 ==
    \A c \in Clients :
        Rejected(c) =>
            /\ conn[c].result = "ok"
            /\ conn[c].resp.status = 400
            /\ conn[c].nresp = 1
            /\ conn[c].nconnect = 0
            /\ conn[c].hs = NoHandshake
            /\ conn[c].stream = 0
            /\ task[c].st = "none"
            /\ conn[c].st = "idle"
            /\ CanDispatch(c)

\* a CONNECT with a rejected target has been answered 400
C1_Witness ==
    \E c \in Clients :
        /\ conn[c].method = "CONNECT" /\ Rejected(c)
        /\ conn[c].resp.status = 400 /\ conn[c].nconnect = 0

\* C2 as stated: a target without authority, and a CONNECT target that is a
\* bare host without port, are answered 400 and reach no backend.
C2_MalformedTargetsAre400 ==
    \A c \in Clients :
        (\/ conn[c].uri = UriRelativePath
         \/ conn[c].method = "CONNECT" /\ conn[c].uri = UriNoHost) =>
            /\ conn[c].resp.status = 400
            /\ conn[c].nconnect = 0

\* C2 amended: a target without authority is answered 400 and reaches no
\* backend; a CONNECT target that is a bare host without port resolves to
\* that host at port 80, is never answered 400, and the backend connection
\* for it is attempted.
C2_NoAuthorityIs400_BareHostIsPort80 ==
    \A c \in Clients :
        /\ conn[c].uri = UriRelativePath =>
              /\ conn[c].resp.status = 400
              /\ conn[c].nconnect = 0
              /\ conn[c].hs = NoHandshake
        /\ (conn[c].method = "CONNECT" /\ conn[c].uri = UriNoHost) =>
              /\ conn[c].host = DomainNameAddress(<<"nohost">>, 80)
              /\ conn[c].resp.status # 400
              /\ conn[c].st # "idle"
              /\ conn[c].st # "connecting" => conn[c].nconnect = 1

\* CONNECT nohost got its tunnel, to nohost:80
C2_Witness ==
    \E c \in Clients :
        /\ conn[c].method = "CONNECT" /\ conn[c].uri = UriNoHost
        /\ conn[c].resp.status = 200
        /\ conn[c].nconnect = 1
        /\ conn[c].hs.addr = DomainNameAddress(<<"nohost">>, 80)

\* the relay of connection c has moved a byte, in either direction
BytesCopied(c) ==
    \/ task[c].rbuf # <<>> \/ task[c].wbuf # <<>>
    \/ upgraded[c].cr > 0 \/ upgraded[c].toC # <<>>
    \/ /\ task[c].stream # 0
       /\ tunnels[task[c].stream].br > 0 \/ tunnels[task[c].stream].toB # <<>>

\* C3: a CONNECT whose connect and handshake succeeded gets exactly one
\* response, 200 with an empty body and a Proxy-Agent header, and the relay
\* moves no byte before that response was returned.
C3_TunnelResponseBeforeRelay ==
    \A c \in Clients :
        conn[c].method = "CONNECT" =>
            /\ conn[c].nresp <= 1
            /\ (conn[c].stream # 0 /\ conn[c].st # "returning") =>
                  /\ conn[c].nresp = 1
                  /\ conn[c].result = "ok"
                  /\ conn[c].resp = Response(200, <<>>, {"Proxy-Agent"})
            /\ (BytesCopied(c) \/ task[c].st \in {"relay", "done"}) =>
                  /\ conn[c].nresp = 1
                  /\ conn[c].resp.status = 200

\* a tunnel answered 200 has carried bytes in both directions
C3_Witness ==
    \E c \in Clients :
        /\ conn[c].resp = Response(200, <<>>, {"Proxy-Agent"})
        /\ upgraded[c].toC # <<>>
        /\ tunnels[task[c].stream].toB # <<>>

\* C4: a CONNECT whose backend connection or handshake failed ends in an
\* error return: no response of any status, no task, one connect attempt and
\* no other, and the connection dispatches nothing more.
C4_ConnectFailureIsError ==
    \A c \in Clients :
        (conn[c].method = "CONNECT" /\ conn[c].io # "none") =>
            /\ conn[c].result = "err"
            /\ conn[c].resp = NoResponse
            /\ conn[c].nresp = 0
            /\ task[c].st = "none"
            /\ conn[c].stream = 0
            /\ conn[c].nconnect = 1
            /\ conn[c].st = "failed"
            /\ ~ENABLED connect_ok(c) /\ ~ENABLED connect_err(c)
            /\ ~ENABLED handshake_ok(c) /\ ~ENABLED handshake_err(c)
            /\ \A m \in Methods, u \in RequestUris : ~ENABLED server_dispatch(c, m, u)

\* a CONNECT whose handshake was rejected has ended its connection
C4_Witness ==
    \E c \in Clients :
        /\ conn[c].method = "CONNECT" /\ conn[c].io = "handshake"
        /\ conn[c].result = "err" /\ conn[c].nconnect = 1

\* C5: a forwarded request with a resolvable target whose client.request
\* failed is answered 500 with a body naming the resolved destination, by a
\* normal return, and the connection can dispatch its next request.
C5_ForwardFailureIs500 ==
    \A c \in Clients :
        (conn[c].method # "CONNECT" /\ conn[c].io # "none") =>
            /\ ~Rejected(c)
            /\ conn[c].result = "ok"
            /\ conn[c].nresp = 1
            /\ conn[c].resp = Response(500, <<"Relay failed to ", host_addr(conn[c].uri)>>, {})
            /\ conn[c].st = "idle"
            /\ CanDispatch(c)

\* a forwarded request to an unreachable backend has been answered 500
C5_Witness ==
    \E c \in Clients :
        /\ conn[c].method = "GET" /\ conn[c].io = "connect"
        /\ conn[c].resp.status = 500
        /\ conn[c].resp.body = <<"Relay failed to ", DomainNameAddress(<<"example.com">>, 443)>>

(***************************************************************************)
(* Properties of the relay.                                                *)
(***************************************************************************)
\* the backend side of the tunnel of connection c has closed
BackendClosed(c) ==
    task[c].stream # 0 /\ tunnels[task[c].stream].bend # "open"

\* C6: once the backend side of a running relay has closed (eof or error),
\* the relay task terminates, whatever the client does or does not do.
C6_BackendCloseEndsRelay ==
    \A c \in Clients :
        (task[c].st = "relay" /\ BackendClosed(c)) ~> (task[c].st = "done")

\* a relay has ended on the backend's close while the client had sent
\* nothing and kept its side open
C6_Witness ==
    \E c \in Clients :
        /\ task[c].st = "done"
        /\ task[c].outcome \in {"RightOk", "RightErr"}
        /\ upgraded[c].cw = 0 /\ upgraded[c].cend = "open"

\* p is a prefix of s
IsPrefix(p, s) == Len(p) <= Len(s) /\ \A i \in 1..Len(p) : p[i] = s[i]

\* C7: what the tunnel has received is a prefix of what the client wrote,
\* and what the client has received is a prefix of what the backend wrote.
C7_RelayDeliversPrefixes ==
    \A c \in Clients :
        task[c].stream # 0 =>
            /\ IsPrefix(tunnels[task[c].stream].toB, ClientBytes(c, 1, upgraded[c].cw))
            /\ IsPrefix(upgraded[c].toC,
                        BackendBytes(task[c].stream, 1, tunnels[task[c].stream].bw))

\* everything both peers wrote has been delivered
C7_Witness ==
    \E c \in Clients :
        /\ task[c].stream # 0
        /\ tunnels[task[c].stream].toB = ClientBytes(c, 1, MaxWrite)
        /\ upgraded[c].toC = BackendBytes(task[c].stream, 1, MaxWrite)

\* C8: with two CONNECT tunnels live together, each task holds a tunnel of
\* its own, opened for its own connection and destination; the tunnel
\* receives bytes of that connection's client only, and the client receives
\* bytes of that tunnel only.
C8_NoCrossDelivery ==
    \A c \in Clients :
        task[c].stream # 0 =>
            LET t == task[c].stream IN
            /\ tunnels[t].conn = c
            /\ tunnels[t].addr = conn[c].host
            /\ \A d \in Clients \ {c} : task[d].stream # t
            /\ \A i \in DOMAIN tunnels[t].toB : tunnels[t].toB[i][2] = c
            /\ \A i \in DOMAIN task[c].rbuf : task[c].rbuf[i][2] = c
            /\ \A i \in DOMAIN upgraded[c].toC : upgraded[c].toC[i][2] = t
            /\ \A i \in DOMAIN task[c].wbuf : task[c].wbuf[i][2] = t

\* two relays run through the same backend to different destinations and
\* each has delivered payload both ways
C8_Witness ==
    /\ task[1].st = "relay" /\ task[2].st = "relay"
    /\ conn[1].svr = conn[2].svr
    /\ conn[1].host # conn[2].host
    /\ \A c \in Clients :
          upgraded[c].toC # <<>> /\ tunnels[task[c].stream].toB # <<>>

\* the CONNECT of connection c is in flight
InFlight(c) == task[c].st \in {"await_upgrade", "relay"}

\* C9: an in-flight CONNECT owns one tunnel, opened by its own request
\* by connect and handshake on the connection's backend, not a tunnel of a
\* Client's pool, and no other request or connection uses that tunnel.
C9_OneFreshTunnelPerConnect ==
    \A c \in Clients :
        InFlight(c) =>
            LET t == task[c].stream IN
            /\ t \in DOMAIN tunnels
            /\ tunnels[t].open
            /\ tunnels[t].via = "direct"
            /\ tunnels[t].conn = c
            /\ tunnels[t].svr = conn[c].svr /\ tunnels[t].addr = conn[c].host
            /\ conn[c].stream = t /\ conn[c].nconnect = 1
            /\ t \notin pool
            /\ \A d \in Clients \ {c} : task[d].stream # t /\ conn[d].stream # t
            /\ Cardinality({u \in DOMAIN tunnels :
                               tunnels[u].via = "direct" /\ tunnels[u].conn = c}) = 1

\* a CONNECT is in flight on a tunnel of its own while an older tunnel to the
\* same backend and destination sits idle in the Client's pool
C9_Witness ==
    \E c \in Clients :
        /\ InFlight(c) /\ task[c].stream = 2
        /\ 1 \in pool
        /\ tunnels[1].svr = tunnels[2].svr /\ tunnels[1].addr = tunnels[2].addr

\* an Address as the data model allows it: an IP literal and a port, or a
\* non-empty host and a port
ValidAddress(a) ==
    \/ /\ a.type = "SocketAddress"
       /\ a.ip \in Ipv4Literals \cup Ipv6Literals
       /\ a.port \in 0..65535
    \/ /\ a.type = "DomainNameAddress"
       /\ a.host # <<>>
       /\ a.port \in 0..65535

\* C10: proxy_server_handshake is only called with the Address host_addr
\* gave for the request's target, and that Address is an IP and a port or a
\* non-empty host and a port.
C10_HandshakeAddressIsValid ==
    \A c \in Clients :
        conn[c].hs # NoHandshake =>
            /\ conn[c].hs.addr = host_addr(conn[c].uri)
            /\ ValidAddress(conn[c].hs.addr)

(***************************************************************************)
(* Properties of the destination resolver.  The Address of a request is    *)
(* conn[c].host, what host_addr returned to server_dispatch for its target.*)
(***************************************************************************)
\* connection c has dispatched a request
HasRequest(c) == conn[c].method # "-"

\* the authority ends in ":" and a port number
HasPort(a) == Len(a) >= 2 /\ a[Len(a) - 1] = ":" /\ a[Len(a)] \in DOMAIN PortValue

\* the request of connection c has an authority and no port in it
NoExplicitPort(c) ==
    HasRequest(c) /\ conn[c].uri.authority # <<>> /\ ~HasPort(conn[c].uri.authority)

\* C11 as stated: for a target with an authority and no explicit port the
\* resolver uses port 80 when the scheme is http or absent and returns no
\* Address for every other named scheme.
C11_DefaultPortOnlyForHttp ==
    \A c \in Clients :
        NoExplicitPort(c) =>
            /\ conn[c].uri.scheme \in {"http", "none"} =>
                  (conn[c].host # NoAddress => conn[c].host.port = 80)
            /\ conn[c].uri.scheme \notin {"http", "none"} => conn[c].host = NoAddress

\* C11 amended: for a target with an authority and no explicit port the
\* resolver uses port 80 when the scheme is http or absent and port 443 when
\* the scheme is https, and returns no Address for every other named scheme;
\* a host outside brackets always resolves under the three supported cases.
C11_DefaultPort80_443_OrNone ==
    \A c \in Clients :
        NoExplicitPort(c) =>
            /\ conn[c].uri.scheme \in {"http", "none"} =>
                  (conn[c].host # NoAddress => conn[c].host.port = 80)
            /\ conn[c].uri.scheme = "https" =>
                  (conn[c].host # NoAddress => conn[c].host.port = 443)
            /\ conn[c].uri.scheme \notin {"http", "none", "https"} =>
                  conn[c].host = NoAddress
            /\ (/\ conn[c].uri.scheme \in {"http", "none", "https"}
                /\ conn[c].uri.authority[1] # "[") => conn[c].host # NoAddress

\* a request for https://example.com/ went on to example.com at port 443
C11_Witness ==
    \E c \in Clients :
        /\ conn[c].uri = Uri("https", <<"example.com">>)
        /\ conn[c].host = DomainNameAddress(<<"example.com">>, 443)
        /\ conn[c].nconnect = 1

\* the authority a without its userinfo
WithoutUserinfo(a) == SubSeq(a, rfind(a, "@") + 1, Len(a))

\* the socket address s spells: an IPv4 literal or a bracketed IPv6 literal,
\* then ":" and the port; NoAddress when s spells none
SpelledSocketAddr(s) ==
    LET n == Len(s)
        lit == SubSeq(s, 1, n - 2) IN
    IF lit \in Ipv4Literals THEN SocketAddress(lit, PortValue[s[n]])
    ELSE IF \E v6 \in Ipv6Literals : lit = <<"[">> \o v6 \o <<"]">>
         THEN SocketAddress(SubSeq(lit, 2, Len(lit) - 1), PortValue[s[n]])
         ELSE NoAddress

\* C12: for a target whose authority carries an explicit port the resolver
\* succeeds whatever the scheme: it returns the socket address the whole
\* authority spells when it spells one, and otherwise the domain-name Address
\* of the authority's host part and that port.
C12_ExplicitPortResolves ==
    \A c \in Clients :
        (HasRequest(c) /\ HasPort(conn[c].uri.authority)) =>
            LET a == conn[c].uri.authority
                port == PortValue[a[Len(a)]] IN
            /\ conn[c].host # NoAddress
            /\ conn[c].host.port = port
            /\ IF SpelledSocketAddr(a) # NoAddress
               THEN conn[c].host = SpelledSocketAddr(a)
               ELSE conn[c].host =
                        DomainNameAddress(SubSeq(WithoutUserinfo(a), 1,
                                                 Len(WithoutUserinfo(a)) - 2), port)
            /\ a = <<"[", ":", ":", "1", "]", ":", "8080">> =>
                  conn[c].host = SocketAddress(<<":", ":", "1">>, 8080)
            /\ a = <<"example.com", ":", "443">> =>
                  conn[c].host = DomainNameAddress(<<"example.com">>, 443)

\* ftp://[::1]:8080/ resolved to the socket address ::1 port 8080 and the
\* request went on to the backend
C12_Witness ==
    \E c \in Clients :
        /\ conn[c].uri = Uri("ftp", <<"[", ":", ":", "1", "]", ":", "8080">>)
        /\ conn[c].host = SocketAddress(<<":", ":", "1">>, 8080)
        /\ conn[c].nconnect = 1

\* C13: a userinfo in the authority is ignored: the Address of every target
\* is the Address of the same target without its userinfo, and the userinfo
\* is not part of the resolved host.
C13_UserinfoIgnored ==
    \A c \in Clients :
        HasRequest(c) =>
            /\ conn[c].host =
                  host_addr(Uri(conn[c].uri.scheme, WithoutUserinfo(conn[c].uri.authority)))
            /\ conn[c].host.type = "DomainNameAddress" =>
                  \A i \in DOMAIN conn[c].host.host : conn[c].host.host[i] # "@"

\* the host of authority a is delimited by brackets
BracketedHost(a) ==
    LET h == WithoutUserinfo(a) IN Len(h) >= 2 /\ h[1] = "[" /\ h[Len(h)] = "]"

\* C18: for a target without explicit port whose host is bracket-delimited
\* the resolver returns the IPv6 socket address of the bracket interior at
\* the default port, or no Address; never an IPv4 address or a domain name.
C18_BracketedHostIsIpv6OrNone ==
    \A c \in Clients :
        (NoExplicitPort(c) /\ BracketedHost(conn[c].uri.authority)) =>
            LET h == WithoutUserinfo(conn[c].uri.authority) IN
            \/ conn[c].host = NoAddress
            \/ /\ conn[c].host.type = "SocketAddress"
               /\ conn[c].host.ip \in Ipv6Literals
               /\ conn[c].host.ip = SubSeq(h, 2, Len(h) - 1)
               /\ conn[c].host.port \in {80, 443}

(***************************************************************************)
(* Properties of the spawned task and of the listener.                     *)
(***************************************************************************)
\* C14: the 200 response of a CONNECT is returned without waiting for the
\* upgrade or the relay, which run in the spawned task; while that task is
\* unfinished, the other connections are accepted, dispatched and served.
C14_TunnelDoesNotBlockDispatch ==
    \A c \in Clients :
        /\ conn[c].st = "returning" => ENABLED connect_return(c)
        /\ (InFlight(c) /\ conn[c].st # "returning") =>
              /\ conn[c].nresp = 1
              /\ conn[c].resp.status = 200
        /\ InFlight(c) =>
              \A d \in Clients \ {c} :
                  /\ conn[d].st \in {"none", "idle"} =>
                        ENABLED Serve({d}, Methods, {UriExample443})
                  /\ conn[d].st = "connecting" => ENABLED connect_err(d)
                  /\ conn[d].st = "handshaking" => ENABLED handshake_ok(d)
                  /\ conn[d].st = "returning" => ENABLED connect_return(d)
                  /\ conn[d].st = "forwarding" => ENABLED client_connect(d)
                  /\ conn[d].st = "exchange" => ENABLED exchange_err(d)

\* while the relay of one connection runs, a request dispatched later on the
\* other connection has been served
C14_Witness ==
    \E c \in Clients, d \in Clients :
        /\ c # d
        /\ task[c].st = "relay"
        /\ conn[d].method = "GET" /\ conn[d].st = "idle"
        /\ conn[d].resp \in UpstreamResponses
        /\ conn[d].stream > task[c].stream

\* one of the two copies of the relay of connection c has completed
DirectionCompleted(c) ==
    /\ task[c].st = "relay"
    /\ \/ rhalf_ready_ok(c) \/ rhalf_ready_err(c)
       \/ whalf_ready_ok(c) \/ whalf_ready_err(c)

\* the relay of connection c has ended as it must: on one of the four
\* outcomes, both streams closed, what the copies held dropped and no copy
\* able to move a byte, the request still answered 200 by a normal return
\* with its one backend connection
EndedClean(c) ==
    /\ task[c].outcome \in {"LeftOk", "LeftErr", "RightOk", "RightErr"}
    /\ ~tunnels[task[c].stream].open
    /\ upgraded[c].closed
    /\ task[c].rbuf = <<>> /\ task[c].wbuf = <<>>
    /\ ~ENABLED RelayStep(c)
    /\ conn[c].result = "ok" /\ conn[c].nresp = 1 /\ conn[c].resp.status = 200
    /\ conn[c].nconnect = 1
    /\ Cardinality({t \in DOMAIN tunnels : tunnels[t].conn = c}) = 1

\* C15: once either copy of a relay has completed, with eof or with an
\* error, the relay terminates; a terminated relay has abandoned the other
\* copy, which moves no further byte, has closed the client stream and the
\* backend tunnel, and has completed normally on each of the four outcomes,
\* with no error propagated and nothing retried.
C15_EitherDirectionEndsRelay ==
    /\ [](\A c \in Clients : task[c].st = "done" => EndedClean(c))
    /\ \A c \in Clients : DirectionCompleted(c) ~> (task[c].st = "done")

\* a relay has ended on the client's eof while bytes the backend wrote were
\* not yet delivered to the client
C15_Witness ==
    \E c \in Clients :
        /\ task[c].st = "done" /\ task[c].outcome = "LeftOk"
        /\ tunnels[task[c].stream].bw > Len(upgraded[c].toC)
        /\ tunnels[task[c].stream].bend = "open"

\* C16: when the upgrade of a CONNECT fails, the tunnel opened for it is
\* closed, the relay never starts and moves no byte in either direction,
\* and the request gets no response beyond its 200.
C16_UpgradeFailureDropsTunnel ==
    \A c \in Clients :
        task[c].st = "dropped" =>
            /\ ~tunnels[task[c].stream].open
            /\ ~BytesCopied(c)
            /\ task[c].outcome = "none"
            /\ ~ENABLED upgrade_ok(c)
            /\ ~ENABLED RelayStep(c)
            /\ conn[c].nresp <= 1
            /\ conn[c].st # "returning" =>
                  conn[c].nresp = 1 /\ conn[c].resp = Response(200, <<>>, {"Proxy-Agent"})

\* an upgrade failed after the 200 response, with bytes of the client and of
\* the backend waiting to be relayed
C16_Witness ==
    \E c \in Clients :
        /\ task[c].st = "dropped"
        /\ conn[c].nresp = 1 /\ conn[c].resp.status = 200
        /\ upgraded[c].cw > 0
        /\ tunnels[task[c].stream].bw > 0

\* C17: the balancer is asked once per accepted connection; every request of
\* the connection, CONNECT or forwarded, connects and handshakes with the
\* backend descriptor picked then, and the clients built at startup stay as
\* they were built.
C17_OnePickPerConnection ==
    \A c \in Clients :
        conn[c].st # "none" =>
            /\ conn[c].picks = 1
            /\ server_clients = BuildServerClients(servers, 1, <<>>)
            /\ conn[c].hs # NoHandshake => servers[conn[c].hs.svr] = servers[conn[c].svr]
            /\ \A t \in DOMAIN tunnels :
                  (tunnels[t].open /\ conn[c].stream = t) =>
                      servers[tunnels[t].svr] = servers[conn[c].svr]

\* C19: for every accepted connection the lookup of the picked backend's
\* client succeeds and finds a client whose connector holds the picked
\* backend descriptor, address and credentials, so that forwarded requests
\* go through the picked backend.
C19_ClientBoundToPickedBackend ==
    \A c \in Clients :
        conn[c].st # "none" =>
            /\ servers[conn[c].svr].addr \in DOMAIN server_clients
            /\ conn[c].client = server_clients[servers[conn[c].svr].addr]
            /\ servers[conn[c].client] = servers[conn[c].svr]

====
